---- MODULE Spec2Model ----
(***************************************************************************)
(* Round/stage coordination of HivemindGRPOTrainer                         *)
(* (hivemind_exp/trainer/hivemind_grpo_trainer.py): one coordinator and    *)
(* one follower sharing a DHT that holds the progress pointer, the         *)
(* per-stage rewards maps, the per-stage leaderboards and the outputs.     *)
(***************************************************************************)
EXTENDS Integers, Sequences, FiniteSets, TLC

\* ---------------------------------------------------------------- bounds
MaxRounds == 2          \* stage_data.max_rounds
NumStages == 2          \* len(stage_data.stages)
MaxSteps == 2           \* compute_loss calls made by one trainer.train()
MaxReward == 1          \* cap on a trainer's cumulative stage_rewards
MaxKeys == 4            \* worker keys that may occur in a rewards snapshot
MaxInterval == 3        \* largest check_interval / max_check_interval tried
MaxFaults == 1          \* transient errors raised in one run of Spec

\* ------------------------------------------------------ program constants
MAX_TRAIN_FAILS == 5
CADENCE_OF_UPDATE_STEPS == 4
RETRY_DELAY == 5        \* time.sleep(5) of train_stage_and_save
PUSH_DELAY == 1         \* time.sleep(1) after a push_to_hub that succeeded

\* node.key of the two workers; the order of the numbers stands for the
\* order of the key strings.
Coordinator == 1
Follower == 2
Workers == {Coordinator, Follower}
Keys == 1..MaxKeys

is_coordinator(w) == w = Coordinator

Rounds == 0..(MaxRounds - 1)
Stages == 0..(NumStages - 1)
RS == Rounds \X Stages

Followers == Workers \ {Coordinator}

\* Rewards that workers outside the model may have stored in a snapshot.
MaxSnapReward == 2
SnapshotMaps ==
    UNION {[D -> 0..MaxSnapReward] : D \in SUBSET (Keys \ {Coordinator})}

\* sum(self.node.rewards) of one publishing step
RewardIncs == {1}

VARIABLES
    pc,               \* control position of each worker
    err,              \* the exception that ended the worker's train(), if any
    node_round_num,   \* node.round_num
    node_stage_num,   \* node.stage_num
    round_num,        \* local round_num of coordinator_train / follower_train
    stage,            \* local stage of follower_train (observed stage)
    stage_idx,        \* start_stage + i of the loop in train_stages
    retrying,         \* follower is inside the stage-0 re-attempt (line 324)
    attempt,          \* trainer.train() invocations of this train_stage_and_save
    fails,            \* transient errors caught in this train_stage_and_save
    global_step,      \* trainer.state.global_step
    stage_rewards,    \* trainer.stage_rewards
    curr_rewards,     \* publish_leaderboard: the latest read of the rewards map
    stage_cache,      \* (round, stage) entries of the node's stage cache
    cleanups,         \* cleanup() calls made during the current train_stages call
    call_fails,       \* transient errors caught during the current train_stages call
    done_rounds,      \* follower_train: done_rounds
    check_interval,   \* follower_train parameter
    max_check_interval, \* follower_train parameter
    check_backoff,    \* follower_train: check_backoff
    max_rounds,       \* stage_data.max_rounds
    push_to_hub_token, \* config.push_to_hub_token is not None
    dht_lossy,        \* a read of the rewards map may miss what is stored
    push,             \* outcome of the latest push_to_hub: none, ok, failed
    pg_init,          \* torch.distributed.is_initialized()
    ts_calls,         \* train_stages calls made so far, per worker and round
    faults_left,      \* transient errors the run may still raise (bound)
    last_sleep,       \* argument of the worker's latest time.sleep (0: none yet)
    ptr_writes,       \* every store of ROUND_STAGE_NUMBER_KEY, in order
    rewards,          \* DHT: rewards_key(r, s) -> (subkey -> value)
    leaderboard,      \* DHT: leaderboard_key(r, s) -> list, for the keys stored
    outputs,          \* DHT: node_outputs_key(node) entries that were stored
    dht_log           \* every dht.store so far: <<table, owner, writer>>

vars == <<pc, err, node_round_num, node_stage_num, round_num, stage, stage_idx,
          retrying, attempt, fails, global_step, stage_rewards, curr_rewards,
          stage_cache, cleanups, call_fails, done_rounds, check_interval,
          max_check_interval, check_backoff, max_rounds, push_to_hub_token,
          dht_lossy, push, pg_init, ts_calls, faults_left,
          last_sleep, ptr_writes, rewards, leaderboard, outputs, dht_log>>

nodeVars == <<node_round_num, node_stage_num>>
trainerVars == <<attempt, fails, global_step, stage_rewards, curr_rewards>>
followerVars == <<done_rounds, check_interval, max_check_interval, check_backoff>>
configVars == <<max_rounds, push_to_hub_token, dht_lossy>>
loopVars == <<followerVars, configVars, faults_left>>
dhtVars == <<ptr_writes, rewards, leaderboard, outputs, dht_log>>

Min(a, b) == IF a <= b THEN a ELSE b
Last(s) == s[Len(s)]
EmptyMap == [k \in {} |-> 0]

\* ------------------------------------------------------------ leaderboard
\* None / a value of get_dht_value: the empty set is None, {m} is the map m.
None == {}
Some(m) == {m}

\* Python truthiness of `curr_rewards` (None and the empty dict are falsy).
Truthy(opt) == opt # None /\ \A m \in opt : DOMAIN m # {}

\* curr_rewards.items(): the (node_key, reward) pairs of the map.
RECURSIVE items(_)
items(m) ==
    IF DOMAIN m = {} THEN <<>>
    ELSE LET k == CHOOSE k \in DOMAIN m : \A j \in DOMAIN m : k <= j
         IN  <<<<k, m[k]>>>> \o items([j \in DOMAIN m \ {k} |-> m[j]])

\* Variant: the sort key is the reward alone (key=lambda t: t[1]).
KeyLess_reward_only(a, b) == a[2] < b[2]

\* key=lambda t: (t[1], t[0]) compared as tuples: a's sort key is below b's.
KeyLess(a, b) == a[2] < b[2] \/ (a[2] = b[2] /\ a[1] < b[1])

\* x placed in the descending list s, behind the pairs that are not below it.
RECURSIVE Insert(_, _)
Insert(x, s) ==
    IF s = <<>> THEN <<x>>
    ELSE IF KeyLess(Head(s), x) THEN <<x>> \o s
    ELSE <<Head(s)>> \o Insert(x, Tail(s))

\* list(sorted(pairs, key=lambda t: (t[1], t[0]), reverse=True)): a stable
\* descending sort, pairs of equal sort key keep their order in `pairs`.
RECURSIVE sorted(_)
sorted(pairs) ==
    IF pairs = <<>> THEN <<>>
    ELSE Insert(pairs[Len(pairs)], sorted(SubSeq(pairs, 1, Len(pairs) - 1)))

\* dht.store(key=k, value=v) on a keyed DHT table.
store(table, k, v) ==
    [x \in DOMAIN table \cup {k} |-> IF x = k THEN v ELSE table[x]]

\* The possible results of get_dht_value(dht, key=rewards_key(r, s),
\* latest=True): the map stored under the key or, on a store that may not
\* have delivered the writes yet, a miss.
get_dht_value(table, r, s) ==
    IF dht_lossy THEN {None, Some(table[<<r, s>>])} ELSE {Some(table[<<r, s>>])}

\* The possible results of get_round_and_stage(dht): any pointer value that
\* was stored (reads may be stale); the empty set means the read raises.
get_round_and_stage == {ptr_writes[i] : i \in 1..Len(ptr_writes)}

\* Variant: the read is not tested (`curr_rewards or {}` is published).
publish_leaderboard_unchecked(lb, r, s, read) ==
    LET m == IF read = None THEN EmptyMap ELSE CHOOSE m \in read : TRUE
    IN  store(lb, <<r, s>>, sorted(items(m)))

\* Variant: the list is stored under the key of the stage before the
\* current one (the stage that the log line of publish_leaderboard names).
publish_leaderboard_prev_stage(lb, r, s, read) ==
    IF Truthy(read)
    THEN LET m == CHOOSE m \in read : TRUE
         IN  store(lb, <<r, IF s > 0 THEN s - 1 ELSE s>>, sorted(items(m)))
    ELSE lb

\* publish_leaderboard: the leaderboard table after the call, given the read.
publish_leaderboard(lb, r, s, read) ==
    IF Truthy(read)
    THEN LET m == CHOOSE m \in read : TRUE
         IN  store(lb, <<r, s>>, sorted(items(m)))
    ELSE lb

\* -------------------------------------------------------------- helpers
\* cleanup(): clears the node's stage cache (and the accelerator caches)
\* and destroys the distributed process group when one is initialized.
cleanup(w) ==
    /\ cleanups' = [cleanups EXCEPT ![w] = @ + 1]
    /\ stage_cache' = [stage_cache EXCEPT ![w] = {}]
    /\ pg_init' = [pg_init EXCEPT ![w] = FALSE]

\* The finally block of train(), run when the step ends _train() by a
\* return or by an error: the process group is destroyed if initialized.
\* Nothing else is released; the stage cache is left as it is.
train_finally(w) ==
    IF pc'[w] \in {"done", "error"}
    THEN /\ pg_init' = [pg_init EXCEPT ![w] = FALSE]
         /\ UNCHANGED stage_cache
    ELSE UNCHANGED <<pg_init, stage_cache>>

\* Entry of train_stages(r, s, is_coordinator): node.round_num = round_num,
\* then the loop over stages[start_stage:].
CallTrainStages(w, r, s) ==
    /\ node_round_num' = [node_round_num EXCEPT ![w] = r]
    /\ stage_idx' = [stage_idx EXCEPT ![w] = s]
    /\ cleanups' = [cleanups EXCEPT ![w] = 0]
    /\ call_fails' = [call_fails EXCEPT ![w] = 0]
    /\ ts_calls' = [ts_calls EXCEPT ![w] =
                      [x \in Rounds |-> IF x = r THEN @[x] + 1 ELSE @[x]]]
    /\ pc' = [pc EXCEPT ![w] = "ts_loop"]

\* The outcomes of the push of the final model: no push without a token.
PushOutcomes == IF push_to_hub_token THEN {"ok", "failed"} ELSE {"none"}

\* Variant: the role test is inverted (`if not is_coordinator`).
StorePointer_inverted(w, r, s) ==
    IF ~is_coordinator(w) THEN Append(ptr_writes, <<r, s>>) ELSE ptr_writes

\* The coordinator's store of the progress pointer at the top of a stage.
StorePointer(w, r, s) ==
    IF is_coordinator(w) THEN Append(ptr_writes, <<r, s>>) ELSE ptr_writes

\* Variant: the handler re-attempts whatever the observed stage was
\* (the `if stage > 0` test is missing).
Raise_retry_any_stage(w, e) ==
    IF /\ ~is_coordinator(w)
       /\ e = "DatasetGenerationError"
       /\ ~retrying[w]
    THEN /\ CallTrainStages(w, round_num[w], 0)
         /\ retrying' = [retrying EXCEPT ![w] = TRUE]
         /\ UNCHANGED <<err, pg_init, stage_cache>>
    ELSE /\ pc' = [pc EXCEPT ![w] = "error"]
         /\ err' = [err EXCEPT ![w] = e]
         /\ train_finally(w)
         /\ UNCHANGED <<node_round_num, stage_idx, cleanups, ts_calls, call_fails, retrying>>

\* Exception e leaves train_stages: the follower's handler re-attempts the
\* round from stage 0 on a DatasetGenerationError of a join at stage > 0;
\* everything else propagates out of train().
Raise(w, e) ==
    IF /\ ~is_coordinator(w)
       /\ e = "DatasetGenerationError"
       /\ ~retrying[w]
       /\ stage[w] > 0
    THEN /\ CallTrainStages(w, round_num[w], 0)
         /\ retrying' = [retrying EXCEPT ![w] = TRUE]
         /\ UNCHANGED <<err, pg_init, stage_cache>>
    ELSE /\ pc' = [pc EXCEPT ![w] = "error"]
         /\ err' = [err EXCEPT ![w] = e]
         /\ train_finally(w)
         /\ UNCHANGED <<node_round_num, stage_idx, cleanups, ts_calls, call_fails, retrying>>

\* ----------------------------------------------------------------- Init
Start(ci, mi, mr, n, token, lossy) ==
    /\ pc = [w \in Workers |-> IF is_coordinator(w) THEN "c_loop" ELSE "f_loop"]
    /\ err = [w \in Workers |-> "none"]
    /\ node_round_num = [w \in Workers |-> 0]
    /\ node_stage_num = [w \in Workers |-> 0]
    /\ round_num = [w \in Workers |-> 0]
    /\ stage = [w \in Workers |-> 0]
    /\ stage_idx = [w \in Workers |-> 0]
    /\ retrying = [w \in Workers |-> FALSE]
    /\ attempt = [w \in Workers |-> 0]
    /\ fails = [w \in Workers |-> 0]
    /\ global_step = [w \in Workers |-> 0]
    /\ stage_rewards = [w \in Workers |-> 0]
    /\ curr_rewards = None
    /\ stage_cache = [w \in Workers |-> {}]
    /\ cleanups = [w \in Workers |-> 0]
    /\ call_fails = [w \in Workers |-> 0]
    /\ done_rounds = {}
    /\ check_interval = ci
    /\ max_check_interval = mi
    /\ check_backoff = check_interval
    /\ max_rounds = mr
    /\ push_to_hub_token = token
    /\ dht_lossy = lossy
    /\ push = [w \in Workers |-> "none"]
    /\ pg_init = [w \in Workers |-> TRUE]
    /\ ts_calls = [w \in Workers |-> [x \in Rounds |-> 0]]
    /\ faults_left = n
    /\ last_sleep = [w \in Workers |-> 0]
    /\ ptr_writes = <<>>
    /\ rewards = [k \in RS |-> EmptyMap]
    /\ leaderboard = EmptyMap
    /\ outputs = {}
    /\ dht_log = {}

Init ==
    \E ci \in 0..MaxInterval, mi \in 0..MaxInterval :
        Start(ci, mi, MaxRounds, MaxFaults, FALSE, TRUE)

\* ---------------------------------------------------- coordinator_train
\* while round_num < max_rounds and not timed out: train_stages(round_num, 0, True)
coordinator_train(w) ==
    /\ is_coordinator(w)
    /\ pc[w] = "c_loop"
    /\ round_num[w] < max_rounds
    /\ CallTrainStages(w, round_num[w], 0)
    /\ UNCHANGED <<err, node_stage_num, round_num, stage, push, retrying, trainerVars,
                   stage_cache, pg_init, loopVars, last_sleep, dhtVars>>

\* Variant: the expiry of the time budget is raised as an error.
coordinator_timeout_raises(w) ==
    /\ is_coordinator(w)
    /\ pc[w] = "c_loop"
    /\ pc' = [pc EXCEPT ![w] = "error"]
    /\ err' = [err EXCEPT ![w] = "Exception"]
    /\ train_finally(w)
    /\ UNCHANGED <<nodeVars, round_num, stage, push, stage_idx, retrying,
                   trainerVars, cleanups, ts_calls, call_fails,
                   loopVars, last_sleep, dhtVars>>

\* The loop condition fails on the elapsed time: "Training timed out!".
coordinator_timeout(w) ==
    /\ is_coordinator(w)
    /\ pc[w] = "c_loop"
    /\ pc' = [pc EXCEPT ![w] = "done"]
    /\ train_finally(w)
    /\ UNCHANGED <<err, nodeVars, round_num, stage, push, stage_idx, retrying,
                   trainerVars, cleanups, ts_calls, call_fails,
                   loopVars, last_sleep, dhtVars>>

\* Variant: the round counter is not advanced before the next iteration.
coordinator_next_round_same(w) ==
    /\ is_coordinator(w)
    /\ pc[w] = "ret"
    /\ pc' = [pc EXCEPT ![w] = "c_loop"]
    /\ UNCHANGED <<err, nodeVars, round_num, stage, push, stage_idx, retrying,
                   trainerVars, stage_cache, pg_init, cleanups, ts_calls, call_fails, loopVars,
                   last_sleep, dhtVars>>

\* train_stages returned: round_num += 1; return at max_rounds.
coordinator_next_round(w) ==
    /\ is_coordinator(w)
    /\ pc[w] = "ret"
    /\ round_num' = [round_num EXCEPT ![w] = @ + 1]
    /\ pc' = [pc EXCEPT ![w] =
                IF round_num[w] + 1 = max_rounds THEN "done" ELSE "c_loop"]
    /\ train_finally(w)
    /\ UNCHANGED <<err, nodeVars, stage, push, stage_idx, retrying, trainerVars,
                   cleanups, ts_calls, call_fails, loopVars,
                   last_sleep, dhtVars>>

\* ------------------------------------------------------- follower_train
\* The while condition fails on the elapsed time: "Training timed out!".
follower_timeout(w) ==
    /\ ~is_coordinator(w)
    /\ pc[w] = "f_loop"
    /\ pc' = [pc EXCEPT ![w] = "done"]
    /\ train_finally(w)
    /\ UNCHANGED <<err, nodeVars, round_num, stage, push, stage_idx, retrying,
                   trainerVars, cleanups, ts_calls, call_fails,
                   loopVars, last_sleep, dhtVars>>

\* Variant: the error of the pointer read is not caught.
follower_read_fail_raises(w) ==
    /\ ~is_coordinator(w)
    /\ pc[w] = "f_loop"
    /\ pc' = [pc EXCEPT ![w] = "error"]
    /\ err' = [err EXCEPT ![w] = "Exception"]
    /\ train_finally(w)
    /\ UNCHANGED <<nodeVars, round_num, stage, push, stage_idx, retrying,
                   trainerVars, cleanups, ts_calls, call_fails,
                   loopVars, last_sleep, dhtVars>>

\* get_round_and_stage raises: sleep(check_interval); continue.
follower_read_fail(w) ==
    /\ ~is_coordinator(w)
    /\ pc[w] = "f_loop"
    /\ last_sleep' = [last_sleep EXCEPT ![w] = check_interval]
    /\ UNCHANGED <<pc, err, nodeVars, round_num, stage, push, stage_idx, retrying,
                   trainerVars, stage_cache, pg_init, cleanups, ts_calls, call_fails,
                   loopVars, dhtVars>>

\* Variant: the follower joins the round after the observed one.
follower_join_ahead(w) ==
    /\ ~is_coordinator(w)
    /\ pc[w] = "f_loop"
    /\ \E p \in get_round_and_stage :
         /\ p[1] \notin done_rounds
         /\ round_num' = [round_num EXCEPT ![w] = p[1] + 1]
         /\ stage' = [stage EXCEPT ![w] = p[2]]
         /\ CallTrainStages(w, p[1] + 1, p[2])
    /\ retrying' = [retrying EXCEPT ![w] = FALSE]
    /\ UNCHANGED <<err, node_stage_num, trainerVars, push, stage_cache,
                   pg_init, loopVars, last_sleep, dhtVars>>

\* round_num not in done_rounds: train_stages(round_num, stage, False).
follower_join(w) ==
    /\ ~is_coordinator(w)
    /\ pc[w] = "f_loop"
    /\ \E p \in get_round_and_stage :
         /\ p[1] \notin done_rounds
         /\ round_num' = [round_num EXCEPT ![w] = p[1]]
         /\ stage' = [stage EXCEPT ![w] = p[2]]
         /\ CallTrainStages(w, p[1], p[2])
    /\ retrying' = [retrying EXCEPT ![w] = FALSE]
    /\ UNCHANGED <<err, node_stage_num, trainerVars, push, stage_cache,
                   pg_init, loopVars, last_sleep, dhtVars>>

\* Variant: the doubled backoff is not capped.
follower_idle_uncapped(w) ==
    /\ ~is_coordinator(w)
    /\ pc[w] = "f_loop"
    /\ \E p \in get_round_and_stage :
         /\ p[1] \in done_rounds
         /\ round_num' = [round_num EXCEPT ![w] = p[1]]
         /\ stage' = [stage EXCEPT ![w] = p[2]]
         /\ pc' = [pc EXCEPT ![w] =
                     IF p[1] = max_rounds - 1 THEN "done" ELSE "f_loop"]
    /\ last_sleep' = [last_sleep EXCEPT ![w] = check_backoff]
    /\ check_backoff' = check_backoff * 2
    /\ train_finally(w)
    /\ UNCHANGED <<err, nodeVars, stage_idx, retrying, trainerVars, push,
                   cleanups, ts_calls, call_fails, done_rounds,
                   check_interval, max_check_interval, configVars, faults_left,
                   dhtVars>>

\* Variant: a round that is already done is replayed after the sleep.
follower_idle_replays(w) ==
    /\ ~is_coordinator(w)
    /\ pc[w] = "f_loop"
    /\ \E p \in get_round_and_stage :
         /\ p[1] \in done_rounds
         /\ round_num' = [round_num EXCEPT ![w] = p[1]]
         /\ stage' = [stage EXCEPT ![w] = p[2]]
         /\ CallTrainStages(w, p[1], p[2])
    /\ last_sleep' = [last_sleep EXCEPT ![w] = check_backoff]
    /\ check_backoff' = Min(check_backoff * 2, max_check_interval)
    /\ UNCHANGED <<err, node_stage_num, retrying, trainerVars, push,
                   stage_cache, pg_init, done_rounds,
                   check_interval, max_check_interval, configVars, faults_left,
                   dhtVars>>

\* round_num in done_rounds: sleep(check_backoff), double it up to the cap;
\* return when the observed round is the last one.
follower_idle(w) ==
    /\ ~is_coordinator(w)
    /\ pc[w] = "f_loop"
    /\ \E p \in get_round_and_stage :
         /\ p[1] \in done_rounds
         /\ round_num' = [round_num EXCEPT ![w] = p[1]]
         /\ stage' = [stage EXCEPT ![w] = p[2]]
         /\ pc' = [pc EXCEPT ![w] =
                     IF p[1] = max_rounds - 1 THEN "done" ELSE "f_loop"]
    /\ last_sleep' = [last_sleep EXCEPT ![w] = check_backoff]
    /\ check_backoff' = Min(check_backoff * 2, max_check_interval)
    /\ train_finally(w)
    /\ UNCHANGED <<err, nodeVars, stage_idx, retrying, trainerVars, push,
                   cleanups, ts_calls, call_fails, done_rounds,
                   check_interval, max_check_interval, configVars, faults_left,
                   dhtVars>>

\* Variant: the finished round is not added to done_rounds.
follower_round_done_forgets(w) ==
    /\ ~is_coordinator(w)
    /\ pc[w] = "ret"
    /\ check_backoff' = check_interval
    /\ pc' = [pc EXCEPT ![w] =
                IF round_num[w] = max_rounds - 1 THEN "done" ELSE "f_loop"]
    /\ retrying' = [retrying EXCEPT ![w] = FALSE]
    /\ train_finally(w)
    /\ UNCHANGED <<err, nodeVars, round_num, stage, push, stage_idx,
                   trainerVars, cleanups, ts_calls, call_fails, done_rounds,
                   check_interval, max_check_interval, configVars,
                   faults_left, last_sleep, dhtVars>>

\* Variant: the test `round_num == max_rounds - 1` after a finished round
\* is missing.
follower_round_done_no_return(w) ==
    /\ ~is_coordinator(w)
    /\ pc[w] = "ret"
    /\ done_rounds' = done_rounds \cup {round_num[w]}
    /\ check_backoff' = check_interval
    /\ pc' = [pc EXCEPT ![w] = "f_loop"]
    /\ retrying' = [retrying EXCEPT ![w] = FALSE]
    /\ train_finally(w)
    /\ UNCHANGED <<err, nodeVars, round_num, stage, push, stage_idx,
                   trainerVars, cleanups, ts_calls, call_fails,
                   check_interval, max_check_interval, configVars,
                   faults_left, last_sleep, dhtVars>>

\* train_stages returned to the follower: done_rounds.add(round_num), reset
\* the backoff; return when the round is the last one.
follower_round_done(w) ==
    /\ ~is_coordinator(w)
    /\ pc[w] = "ret"
    /\ done_rounds' = done_rounds \cup {round_num[w]}
    /\ check_backoff' = check_interval
    /\ pc' = [pc EXCEPT ![w] =
                IF round_num[w] = max_rounds - 1 THEN "done" ELSE "f_loop"]
    /\ retrying' = [retrying EXCEPT ![w] = FALSE]
    /\ train_finally(w)
    /\ UNCHANGED <<err, nodeVars, round_num, stage, push, stage_idx,
                   trainerVars, cleanups, ts_calls, call_fails,
                   check_interval, max_check_interval, configVars,
                   faults_left, last_sleep, dhtVars>>

\* --------------------------------------------------------- train_stages
\* Variant: the pointer is stored without the role test.
train_stages_stage_any_role(w) ==
    /\ pc[w] = "ts_loop"
    /\ stage_idx[w] < NumStages
    /\ node_stage_num' = [node_stage_num EXCEPT ![w] = stage_idx[w]]
    /\ ptr_writes' = Append(ptr_writes, <<node_round_num[w], stage_idx[w]>>)
    /\ dht_log' = dht_log \cup {<<"pointer", 0, w>>}
    /\ pc' = [pc EXCEPT ![w] = "dataset"]
    /\ UNCHANGED <<err, node_round_num, round_num, stage, push, stage_idx,
                   retrying, trainerVars, stage_cache, pg_init, cleanups,
                   ts_calls, call_fails, loopVars, last_sleep, rewards,
                   leaderboard, outputs>>

\* Top of the loop body for stage stage_idx: node.stage_num = stage_num and,
\* for the coordinator, the store of the pointer (round_num, stage_num).
train_stages_stage(w) ==
    /\ pc[w] = "ts_loop"
    /\ stage_idx[w] < NumStages
    /\ node_stage_num' = [node_stage_num EXCEPT ![w] = stage_idx[w]]
    /\ ptr_writes' = StorePointer(w, node_round_num[w], stage_idx[w])
    /\ dht_log' = IF ptr_writes' # ptr_writes
                  THEN dht_log \cup {<<"pointer", 0, w>>}
                  ELSE dht_log
    /\ pc' = [pc EXCEPT ![w] = "dataset"]
    /\ UNCHANGED <<err, node_round_num, round_num, stage, push, stage_idx,
                   retrying, trainerVars, stage_cache, pg_init, cleanups,
                   ts_calls, call_fails, loopVars, last_sleep, rewards,
                   leaderboard, outputs>>

\* stage.datasets_fn returns, the publishing trainer is created
\* (stage_rewards = 0.0) and train_stage_and_save makes its first
\* trainer.train() call.
datasets_fn(w) ==
    /\ pc[w] = "dataset"
    /\ stage_rewards' = [stage_rewards EXCEPT ![w] = 0]
    /\ attempt' = [attempt EXCEPT ![w] = 1]
    /\ fails' = [fails EXCEPT ![w] = 0]
    /\ global_step' = [global_step EXCEPT ![w] = 0]
    /\ pc' = [pc EXCEPT ![w] = "training"]
    /\ UNCHANGED <<err, nodeVars, round_num, stage, push, stage_idx, retrying,
                   curr_rewards, stage_cache, pg_init, cleanups, ts_calls, call_fails, loopVars,
                   last_sleep, dhtVars>>

\* stage.datasets_fn raises DatasetGenerationError.
datasets_fn_error(w) ==
    /\ pc[w] = "dataset"
    /\ Raise(w, "DatasetGenerationError")
    /\ UNCHANGED <<node_stage_num, round_num, stage, push, trainerVars,
                   loopVars, last_sleep, dhtVars>>

\* One compute_loss call of the running trainer.train(): on a step that is
\* a multiple of the cadence the node's outputs and cumulative reward are
\* stored; the coordinator then calls publish_leaderboard.
compute_loss(w) ==
    /\ pc[w] = "training"
    /\ global_step[w] < MaxSteps
    /\ LET r == node_round_num[w]
           s == node_stage_num[w]
           publish == global_step[w] % CADENCE_OF_UPDATE_STEPS = 0
       IN  \E inc \in RewardIncs :
             /\ publish => stage_rewards[w] + inc <= MaxReward
             /\ stage_rewards' =
                  IF publish THEN [stage_rewards EXCEPT ![w] = @ + inc]
                  ELSE stage_rewards
             /\ outputs' = IF publish THEN outputs \cup {w} ELSE outputs
             /\ stage_cache' =
                  IF publish THEN [stage_cache EXCEPT ![w] = @ \cup {<<r, s>>}]
                  ELSE stage_cache
             /\ rewards' =
                  IF publish
                  THEN [rewards EXCEPT ![<<r, s>>] =
                          store(@, w, stage_rewards[w] + inc)]
                  ELSE rewards
             /\ IF is_coordinator(w)
                THEN /\ curr_rewards' \in get_dht_value(rewards', r, s)
                     /\ leaderboard' =
                          publish_leaderboard(leaderboard, r, s, curr_rewards')
                ELSE UNCHANGED <<leaderboard, curr_rewards>>
             /\ dht_log' = dht_log
                  \cup (IF publish
                        THEN {<<"outputs", w, w>>, <<"rewards", w, w>>}
                        ELSE {})
                  \cup (IF is_coordinator(w) /\ Truthy(curr_rewards')
                        THEN {<<"leaderboard", 0, w>>}
                        ELSE {})
    /\ global_step' = [global_step EXCEPT ![w] = @ + 1]
    /\ UNCHANGED <<pc, err, nodeVars, round_num, stage, push, stage_idx,
                   retrying, attempt, fails, pg_init, cleanups, ts_calls,
                   call_fails, loopVars, last_sleep, ptr_writes>>

\* trainer.train() returns: metrics, model and tokenizer are saved, the
\* rendezvous is passed and train_stages moves to the next stage.
train_ok(w) ==
    /\ pc[w] = "training"
    /\ stage_idx' = [stage_idx EXCEPT ![w] = @ + 1]
    /\ pc' = [pc EXCEPT ![w] = "ts_loop"]
    /\ UNCHANGED <<err, nodeVars, round_num, stage, push, retrying, trainerVars,
                   stage_cache, pg_init, cleanups, ts_calls, call_fails, loopVars,
                   last_sleep, dhtVars>>

\* trainer.train() raises BlockingIOError or EOFError: cleanup(), sleep(5)
\* and the next iteration of range(MAX_TRAIN_FAILS) calls trainer.train()
\* again; when the range is used up, line 250 reads the unbound
\* train_result and UnboundLocalError leaves train_stages.
train_transient(w) ==
    /\ pc[w] = "training"
    /\ faults_left > 0
    /\ faults_left' = faults_left - 1
    /\ fails' = [fails EXCEPT ![w] = @ + 1]
    /\ call_fails' = [call_fails EXCEPT ![w] = @ + 1]
    /\ cleanup(w)
    /\ last_sleep' = [last_sleep EXCEPT ![w] = RETRY_DELAY]
    /\ IF attempt[w] < MAX_TRAIN_FAILS
       THEN /\ attempt' = [attempt EXCEPT ![w] = @ + 1]
            /\ global_step' = [global_step EXCEPT ![w] = 0]
            /\ UNCHANGED <<pc, err>>
       ELSE /\ pc' = [pc EXCEPT ![w] = "error"]
            /\ err' = [err EXCEPT ![w] = "UnboundLocalError"]
            /\ UNCHANGED <<attempt, global_step>>
    /\ UNCHANGED <<nodeVars, round_num, stage, push, stage_idx, retrying,
                   stage_rewards, curr_rewards, ts_calls, followerVars,
                   configVars, dhtVars>>

\* Variant: the handler of train_stage_and_save catches every error, runs
\* its cleanup() and sleep, and then re-raises the ones that are not
\* transient.
train_error_retried(w) ==
    /\ pc[w] = "training"
    /\ cleanup(w)
    /\ last_sleep' = [last_sleep EXCEPT ![w] = RETRY_DELAY]
    /\ pc' = [pc EXCEPT ![w] = "error"]
    /\ err' = [err EXCEPT ![w] = "Exception"]
    /\ UNCHANGED <<nodeVars, round_num, stage, push, stage_idx, retrying,
                   trainerVars, ts_calls, call_fails, loopVars, dhtVars>>

\* trainer.train() raises an error outside (BlockingIOError, EOFError).
train_error(w) ==
    /\ pc[w] = "training"
    /\ \E e \in {"DatasetGenerationError", "Exception"} : Raise(w, e)
    /\ UNCHANGED <<node_stage_num, round_num, stage, push, trainerVars,
                   loopVars, last_sleep, dhtVars>>

\* Variant: train_stages returns without the final cleanup().
train_stages_finish_no_cleanup(w) ==
    /\ pc[w] = "ts_loop"
    /\ stage_idx[w] >= NumStages
    /\ pc' = [pc EXCEPT ![w] = "ret"]
    /\ UNCHANGED <<err, nodeVars, round_num, stage, push, stage_idx, retrying,
                   trainerVars, stage_cache, pg_init, cleanups, ts_calls, call_fails, loopVars,
                   last_sleep, dhtVars>>

\* Variant: a failed push_to_hub is not caught and leaves train_stages.
train_stages_finish_push_raises(w) ==
    /\ pc[w] = "ts_loop"
    /\ stage_idx[w] >= NumStages
    /\ \E outcome \in PushOutcomes :
         /\ push' = [push EXCEPT ![w] = outcome]
         /\ IF outcome = "failed"
            THEN /\ pc' = [pc EXCEPT ![w] = "error"]
                 /\ err' = [err EXCEPT ![w] = "Exception"]
                 /\ train_finally(w)
                 /\ UNCHANGED <<cleanups, last_sleep>>
            ELSE /\ cleanup(w)
                 /\ pc' = [pc EXCEPT ![w] = "ret"]
                 /\ last_sleep' = IF outcome = "ok"
                                  THEN [last_sleep EXCEPT ![w] = PUSH_DELAY]
                                  ELSE last_sleep
                 /\ UNCHANGED err
    /\ UNCHANGED <<nodeVars, round_num, stage, stage_idx, retrying,
                   trainerVars, ts_calls, call_fails, loopVars, dhtVars>>

\* After the last stage: when a push token is configured, push_to_hub and
\* sleep(1), a failure of the push being caught and logged; then cleanup(),
\* del trainer, return.
train_stages_finish(w) ==
    /\ pc[w] = "ts_loop"
    /\ stage_idx[w] >= NumStages
    /\ \E outcome \in PushOutcomes :
         /\ push' = [push EXCEPT ![w] = outcome]
         /\ last_sleep' = IF outcome = "ok"
                          THEN [last_sleep EXCEPT ![w] = PUSH_DELAY]
                          ELSE last_sleep
    /\ cleanup(w)
    /\ pc' = [pc EXCEPT ![w] = "ret"]
    /\ UNCHANGED <<err, nodeVars, round_num, stage, stage_idx, retrying,
                   trainerVars, ts_calls, call_fails, loopVars, dhtVars>>

\* ----------------------------------------------------------------- Next
\* The coordination protocol: the loops of both workers, the stages and
\* their errors.  compute_loss is left to SpecPublish: it changes only
\* global_step, stage_rewards, stage_cache and the rewards, leaderboard and
\* outputs tables, none of which any action below reads.
Protocol(w) ==
    \/ coordinator_train(w)
    \/ coordinator_timeout(w)
    \/ coordinator_next_round(w)
    \/ follower_timeout(w)
    \/ follower_read_fail(w)
    \/ follower_join(w)
    \/ follower_round_done(w)
    \/ train_stages_stage(w)
    \/ datasets_fn(w)
    \/ datasets_fn_error(w)
    \/ train_ok(w)
    \/ train_transient(w)
    \/ train_error(w)
    \/ train_stages_finish(w)

Next == \E w \in Workers : Protocol(w) \/ follower_idle(w)

Spec == Init /\ [][Next]_vars

\* One round of the swarm with enough transient errors to use up the
\* retries of a stage.
InitRetry == Start(1, MaxInterval, 1, MAX_TRAIN_FAILS, TRUE, TRUE)

NextRetry == \E w \in Workers : Protocol(w)

SpecRetry == InitRetry /\ [][NextRetry]_vars

\* One round of the swarm with the publishing steps of the trainers.
InitPublish == Start(1, MaxInterval, 1, 1, FALSE, TRUE)

NextPublish == \E w \in Workers : Protocol(w) \/ compute_loss(w)

SpecPublish == InitPublish /\ [][NextPublish]_vars


\* Runs in which no stage raises an error: one or more rounds, any
\* interleaving of the two loops, stale and failed pointer reads, timeouts.
InitClean == \E mr \in 1..MaxRounds : Start(1, MaxInterval, mr, 0, FALSE, TRUE)

NextClean ==
    \E w \in Workers :
        \/ coordinator_train(w)
        \/ coordinator_timeout(w)
        \/ coordinator_next_round(w)
        \/ follower_timeout(w)
        \/ follower_read_fail(w)
        \/ follower_join(w)
        \/ follower_idle(w)
        \/ follower_round_done(w)
        \/ train_stages_stage(w)
        \/ datasets_fn(w)
        \/ train_ok(w)
        \/ train_stages_finish(w)

SpecClean == InitClean /\ [][NextClean]_vars

\* The protocol under the progress the follower's code guarantees: a call
\* of train_stages that is under way takes its next step (every stage
\* execution and every sleep ends), and the wall clock advances, so that
\* a follower that keeps coming back to the head of its loop finds the
\* time budget used up at some point.
InitTerm == Start(1, MaxInterval, MaxRounds, MaxFaults, FALSE, TRUE)

FairTerm ==
    \A w \in Followers :
        /\ WF_vars(follower_timeout(w))
        /\ WF_vars(Protocol(w))

SpecTerm == InitTerm /\ [][Next]_vars /\ FairTerm

\* One round in which nothing fails and no time budget runs out, on a
\* store whose reads return what has been written, every worker taking its
\* next step sooner or later.
InitEventual == Start(1, MaxInterval, 1, 0, FALSE, FALSE)

StepEventual(w) ==
    \/ coordinator_train(w)
    \/ coordinator_next_round(w)
    \/ follower_read_fail(w)
    \/ follower_join(w)
    \/ follower_round_done(w)
    \/ train_stages_stage(w)
    \/ datasets_fn(w)
    \/ compute_loss(w)
    \/ train_ok(w)
    \/ train_stages_finish(w)

NextEventual == \E w \in Workers : StepEventual(w)

FairEventual == \A w \in Workers : WF_vars(StepEventual(w))

SpecEventual == InitEventual /\ [][NextEventual]_vars /\ FairEventual

\* The leaderboard build on its own: the coordinator is in the training of
\* round 0, stage 0 and other workers have already stored their rewards.
InitBoard ==
    /\ pc = [w \in Workers |-> IF is_coordinator(w) THEN "training" ELSE "f_loop"]
    /\ err = [w \in Workers |-> "none"]
    /\ node_round_num = [w \in Workers |-> 0]
    /\ node_stage_num = [w \in Workers |-> 0]
    /\ round_num = [w \in Workers |-> 0]
    /\ stage = [w \in Workers |-> 0]
    /\ stage_idx = [w \in Workers |-> 0]
    /\ retrying = [w \in Workers |-> FALSE]
    /\ attempt = [w \in Workers |-> IF is_coordinator(w) THEN 1 ELSE 0]
    /\ fails = [w \in Workers |-> 0]
    /\ global_step = [w \in Workers |-> 0]
    /\ stage_rewards = [w \in Workers |-> 0]
    /\ curr_rewards = None
    /\ stage_cache = [w \in Workers |-> {}]
    /\ cleanups = [w \in Workers |-> 0]
    /\ call_fails = [w \in Workers |-> 0]
    /\ done_rounds = {}
    /\ check_interval = 1
    /\ max_check_interval = MaxInterval
    /\ check_backoff = 1
    /\ max_rounds = 1
    /\ push_to_hub_token = FALSE
    /\ dht_lossy = TRUE
    /\ push = [w \in Workers |-> "none"]
    /\ pg_init = [w \in Workers |-> TRUE]
    /\ ts_calls = [w \in Workers |->
                     [x \in Rounds |-> IF is_coordinator(w) /\ x = 0 THEN 1 ELSE 0]]
    /\ faults_left = 0
    /\ last_sleep = [w \in Workers |-> 0]
    /\ ptr_writes = <<<<0, 0>>>>
    /\ \E m \in SnapshotMaps :
         rewards = [k \in RS |-> IF k = <<0, 0>> THEN m ELSE EmptyMap]
    /\ leaderboard = EmptyMap
    /\ outputs = {}
    /\ dht_log = {<<"pointer", 0, Coordinator>>}

NextBoard == compute_loss(Coordinator)

SpecBoard == InitBoard /\ [][NextBoard]_vars

\* ================================================================ claims
InCall(w) == pc[w] \in {"ts_loop", "dataset", "training"}
LexLE(a, b) == a[1] < b[1] \/ (a[1] = b[1] /\ a[2] <= b[2])
TransientErrors == {"BlockingIOError", "EOFError"}

\* C1 (as stated; SpecRetry): when the training step raised a transient
\* error on every one of the MAX_TRAIN_FAILS attempts of a stage,
\* trainer.train() was called exactly MAX_TRAIN_FAILS times and the error
\* that leaves train_stage_and_save is that transient error.
C1_TransientErrorPropagates ==
    \A w \in Workers :
        fails[w] = MAX_TRAIN_FAILS =>
            /\ attempt[w] = MAX_TRAIN_FAILS
            /\ pc[w] = "error"
            /\ err[w] \in TransientErrors

C3_PointerWrittenBeforeStage ==
    \A w \in Workers :
        (is_coordinator(w) /\ pc[w] \in {"dataset", "training"}) =>
            /\ Len(ptr_writes) > 0
            /\ Last(ptr_writes) = <<node_round_num[w], stage_idx[w]>>
            /\ node_stage_num[w] = stage_idx[w]

\* C3 witness: the coordinator trains the last stage of the last round.
C3_Witness ==
    /\ pc[Coordinator] = "training"
    /\ node_round_num[Coordinator] = MaxRounds - 1
    /\ node_stage_num[Coordinator] = NumStages - 1
    /\ Last(ptr_writes) = <<MaxRounds - 1, NumStages - 1>>

\* C4 (as stated; Spec): from one pointer store to the next neither the
\* round nor the stage decreases.
C4_RoundAndStageNeverDecrease ==
    \A i \in 1..(Len(ptr_writes) - 1) :
        /\ ptr_writes[i][1] <= ptr_writes[i + 1][1]
        /\ ptr_writes[i][2] <= ptr_writes[i + 1][2]

\* C4 (amended; Spec): from one pointer store to the next the round never
\* decreases, and the stage never decreases while the round stays the same;
\* the first store of a new round is at stage 0.
C4_PointerLexicographic ==
    \A i \in 1..(Len(ptr_writes) - 1) :
        /\ ptr_writes[i][1] <= ptr_writes[i + 1][1]
        /\ ptr_writes[i][1] = ptr_writes[i + 1][1] =>
               ptr_writes[i][2] <= ptr_writes[i + 1][2]
        /\ ptr_writes[i][1] < ptr_writes[i + 1][1] => ptr_writes[i + 1][2] = 0

\* C4 witness: the pointer went from the last stage of a round to stage 0
\* of the next round.
C4_Witness ==
    \E i \in 1..(Len(ptr_writes) - 1) :
        /\ ptr_writes[i] = <<0, NumStages - 1>>
        /\ ptr_writes[i + 1] = <<1, 0>>

\* C5 (as stated; Spec): once a pointer is stored, the follower's
\* (node.round_num, node.stage_num) is lexicographically at most the latest
\* pointer stored.
C5_FollowerNotAhead ==
    \A w \in Followers :
        Len(ptr_writes) > 0 =>
            LexLE(<<node_round_num[w], node_stage_num[w]>>, Last(ptr_writes))

\* C5 (amended; Spec): once the follower has joined a round, its
\* node.round_num is at most the round of the latest pointer stored and the
\* (round, stage) it observed is lexicographically at most that pointer;
\* its node.stage_num is not bounded by the pointer's stage.
Joined(w) == InCall(w) \/ pc[w] \in {"ret", "error"} \/ done_rounds # {}
C5_FollowerRoundNotAhead ==
    \A w \in Followers :
        Joined(w) =>
            /\ Len(ptr_writes) > 0
            /\ node_round_num[w] <= Last(ptr_writes)[1]
            /\ LexLE(<<round_num[w], stage[w]>>, Last(ptr_writes))

\* C5 witness: the follower trains a later stage of the round than the one
\* the coordinator has published.
C5_Witness ==
    \E w \in Followers :
        /\ pc[w] = "training"
        /\ node_round_num[w] = Last(ptr_writes)[1]
        /\ node_stage_num[w] > Last(ptr_writes)[2]

\* C6 (as stated; Spec): for any check_interval and max_check_interval, an
\* idle poll never decreases check_backoff, check_backoff never exceeds
\* max_check_interval, and a completed round resets it to check_interval.
C6_BackoffAnyIntervals ==
    [][/\ check_backoff <= max_check_interval
       /\ check_backoff' <= max_check_interval
       /\ \A w \in Followers :
            /\ follower_idle(w) => check_backoff' >= check_backoff
            /\ follower_round_done(w) => check_backoff' = check_interval]_vars

\* C6 (amended; Spec): the same, for 0 <= check_interval <= max_check_interval.
C6_BackoffOrderedIntervals ==
    [][(0 <= check_interval /\ check_interval <= max_check_interval) =>
         /\ check_backoff <= max_check_interval
         /\ check_backoff' <= max_check_interval
         /\ \A w \in Followers :
              /\ follower_idle(w) => check_backoff' >= check_backoff
              /\ follower_round_done(w) => check_backoff' = check_interval]_vars

\* C6 witness: two idle polls took the backoff from check_interval to the cap.
C6_Witness ==
    /\ check_interval = 1
    /\ max_check_interval = 3
    /\ check_backoff = 3
    /\ last_sleep[Follower] = 2

\* C7 (Spec): a poll that observes a round already in done_rounds executes
\* no stage: node.round_num, node.stage_num, done_rounds and the DHT are
\* unchanged and no train_stages call starts; only the sleep and
\* check_backoff change.
C7_IdlePollFrame ==
    [][\A w \in Followers :
         follower_idle(w) =>
            /\ UNCHANGED <<node_round_num, node_stage_num, done_rounds,
                           ptr_writes, rewards, leaderboard, outputs, dht_log,
                           stage_idx, attempt, global_step, stage_cache, pg_init,
                           cleanups, ts_calls, err>>
            /\ pc'[w] \in {"f_loop", "done"}
            /\ last_sleep'[w] = check_backoff
            /\ check_backoff' = Min(check_backoff * 2, max_check_interval)]_vars

\* C7 witness: the follower is back at the poll after an idle poll that
\* doubled the backoff.
C7_Witness ==
    /\ pc[Follower] = "f_loop"
    /\ done_rounds = {0}
    /\ check_interval = 1
    /\ check_backoff = 2
    /\ last_sleep[Follower] = 1

\* C8 (Spec): a DatasetGenerationError of the follower's replay is answered
\* by one re-attempt of the same round from stage 0, and only when the
\* observed stage is above 0; a DatasetGenerationError of the re-attempt, or
\* of a replay from stage 0, starts no further call and propagates with the
\* round not in done_rounds.
C8_CatchUpFallback ==
    [][\A w \in Followers :
         /\ retrying'[w] =>
              /\ stage'[w] > 0
              /\ node_round_num'[w] = round_num'[w]
         /\ (~retrying[w] /\ retrying'[w]) =>
              /\ pc'[w] = "ts_loop"
              /\ stage_idx'[w] = 0
              /\ round_num'[w] = round_num[w]
         /\ (retrying[w] /\ pc[w] \in {"dataset", "training"}) =>
              ~(pc'[w] = "ts_loop" /\ stage_idx'[w] = 0)
         /\ (pc'[w] = "error" /\ err'[w] = "DatasetGenerationError") =>
              /\ retrying'[w] \/ stage'[w] = 0
              /\ round_num'[w] \notin done_rounds']_vars

\* C8 witness: the re-attempt from stage 0 failed with the same error and
\* the error propagated.
C8_Witness ==
    \E w \in Followers :
        /\ pc[w] = "error"
        /\ err[w] = "DatasetGenerationError"
        /\ retrying[w]
        /\ stage[w] > 0
        /\ round_num[w] \notin done_rounds

\* C9 (SpecPublish): no stored leaderboard is an empty list, and a
\* compute_loss step of the coordinator whose read of the rewards map is
\* absent or empty leaves the leaderboard table unchanged.
C9_NoEmptyLeaderboard ==
    [][/\ \A k \in DOMAIN leaderboard' : leaderboard'[k] # <<>>
       /\ (/\ global_step'[Coordinator] = global_step[Coordinator] + 1
           /\ ~Truthy(curr_rewards')) => leaderboard' = leaderboard]_vars

\* C9 witness: the coordinator's first publish of a stage missed the
\* rewards map and no leaderboard exists for that stage.
C9_Witness ==
    /\ pc[Coordinator] = "training"
    /\ global_step[Coordinator] = 1
    /\ curr_rewards = None
    /\ <<node_round_num[Coordinator], node_stage_num[Coordinator]>>
           \notin DOMAIN leaderboard
    /\ DOMAIN leaderboard # {}

\* C10 (SpecBoard): the leaderboard built from a snapshot holds exactly the
\* snapshot's (key, reward) pairs, ordered by reward descending and by key
\* descending among equal rewards, and a second build from the same
\* snapshot stores the same list.
OrderedDesc(lb) ==
    \A i \in 1..(Len(lb) - 1) :
        \/ lb[i][2] > lb[i + 1][2]
        \/ (lb[i][2] = lb[i + 1][2] /\ lb[i][1] > lb[i + 1][1])
PairsOf(lb, m) ==
    /\ Len(lb) = Cardinality(DOMAIN m)
    /\ \A k \in DOMAIN m : \E i \in 1..Len(lb) : lb[i] = <<k, m[k]>>
C10_LeaderboardDeterministic ==
    [][Truthy(curr_rewards') =>
         LET m == CHOOSE m \in curr_rewards' : TRUE
             lb == leaderboard'[<<0, 0>>]
         IN  /\ OrderedDesc(lb)
             /\ PairsOf(lb, m)
             /\ (curr_rewards = curr_rewards' /\ <<0, 0>> \in DOMAIN leaderboard)
                    => leaderboard' = leaderboard]_vars

\* C10 witness: a leaderboard of four entries with two equal rewards,
\* published twice.
C10_Witness ==
    /\ <<0, 0>> \in DOMAIN leaderboard
    /\ Len(leaderboard[<<0, 0>>]) = MaxKeys
    /\ \E i \in 1..(MaxKeys - 1) :
         leaderboard[<<0, 0>>][i][2] = leaderboard[<<0, 0>>][i + 1][2]
    /\ global_step[Coordinator] = 2
    /\ Truthy(curr_rewards)

\* C11 (SpecPublish): every key of the store has a single writer: each store
\* of the progress pointer and of a leaderboard was made by the coordinator,
\* and each store under a rewards subkey or an outputs key was made by the
\* worker that the subkey or key names; so no follower ever stores the
\* pointer or a leaderboard.
C11_SingleWriter ==
    \A e \in dht_log :
        /\ e[1] \in {"pointer", "leaderboard"} => e[3] = Coordinator
        /\ e[1] \in {"rewards", "outputs"} => e[2] = e[3]

\* C11 witness: all four kinds of key have been stored while both workers
\* trained, the follower having stored its rewards and outputs.
C11_Witness ==
    /\ {<<"pointer", 0, Coordinator>>, <<"leaderboard", 0, Coordinator>>,
         <<"rewards", Coordinator, Coordinator>>,
         <<"outputs", Coordinator, Coordinator>>,
         <<"rewards", Follower, Follower>>,
         <<"outputs", Follower, Follower>>} \subseteq dht_log
    /\ ts_calls[Follower][0] > 0

\* C12 (SpecClean): in a run without errors the follower calls train_stages
\* at most once for every round, and each call is for the round and from the
\* stage of a pointer value it observed; with max_rounds = 1, a follower
\* that returned after a finished round has called train_stages for round
\* 0 exactly once, whatever pointer values it observed.
C12_OneCallPerRound ==
    [][\A w \in Followers, r \in Rounds :
         /\ ts_calls'[w][r] <= 1
         /\ ts_calls'[w][r] = ts_calls[w][r] + 1 =>
                /\ <<r, stage'[w]>> \in get_round_and_stage
                /\ round_num'[w] = r
                /\ node_round_num'[w] = r
                /\ stage_idx'[w] = stage'[w]
                /\ ptr_writes' = ptr_writes
         /\ (max_rounds = 1 /\ pc'[w] = "done" /\ done_rounds' # {}) =>
                ts_calls'[w][0] = 1]_vars

\* C12 witness: with max_rounds = 1 the follower joined round 0 at the
\* observed stage 1, finished it and returned, after one call.
C12_Witness ==
    /\ max_rounds = 1
    /\ pc[Follower] = "done"
    /\ done_rounds = {0}
    /\ stage[Follower] = 1
    /\ ts_calls[Follower][0] = 1

\* C13 (Spec): a failed pointer read in the follower's loop is not fatal:
\* the iteration sleeps check_interval and returns to the poll, leaving
\* done_rounds, check_backoff and the node's round and stage unchanged and
\* running no stage; no step of the polling loop ends follower_train with
\* an error, so pointer-read failures alone never do.
C13_ReadFailureNotFatal ==
    [][\A w \in Followers :
         /\ follower_read_fail(w) =>
                /\ pc'[w] = "f_loop"
                /\ err'[w] = "none"
                /\ last_sleep'[w] = check_interval
                /\ UNCHANGED <<done_rounds, check_backoff, nodeVars, stage_idx,
                               ts_calls, global_step, dhtVars>>
         /\ pc[w] = "f_loop" => (pc'[w] # "error" /\ err'[w] = "none")
         /\ (pc[w] # "error" /\ pc'[w] = "error") => InCall(w)]_vars

\* C13 witness: the follower slept check_interval after a failed read,
\* polled again and is now training the round it then observed.
C13_Witness ==
    /\ pc[Follower] = "training"
    /\ done_rounds = {}
    /\ call_fails[Follower] = 0
    /\ check_interval > 0
    /\ last_sleep[Follower] = check_interval

\* C14 (Spec): the coordinator runs the rounds 0, 1, ... in order, each from
\* stage 0 through the last stage, and stores the pointer exactly once per
\* (round, stage): the pointer stores are always a prefix of that schedule
\* and, when coordinator_train returned after max_rounds rounds, the whole
\* of it.  No round at or beyond max_rounds is started; the expiry of the
\* time budget at the head of the loop ends coordinator_train by a normal
\* return, not by an error, and after the return no round is started and
\* nothing more is stored.
Schedule(i) == <<(i - 1) \div NumStages, (i - 1) % NumStages>>
C14_CoordinatorSchedule ==
    [][LET c == Coordinator
       IN  /\ \A i \in 1..Len(ptr_writes') : ptr_writes'[i] = Schedule(i)
           /\ Len(ptr_writes') <= max_rounds * NumStages
           /\ \A r \in Rounds :
                 /\ ts_calls'[c][r] <= 1
                 /\ r < round_num'[c] => ts_calls'[c][r] = 1
                 /\ r > round_num'[c] => ts_calls'[c][r] = 0
           /\ round_num'[c] <= max_rounds
           /\ pc'[c] \in {"ts_loop", "dataset", "training"} =>
                 (node_round_num'[c] = round_num'[c] /\ round_num'[c] < max_rounds)
           /\ (pc'[c] = "done" /\ round_num'[c] = max_rounds) =>
                 Len(ptr_writes') = max_rounds * NumStages
           /\ pc'[c] = "done" => err'[c] = "none"
           /\ pc[c] = "c_loop" =>
                 (pc'[c] # "error" /\ ptr_writes' = ptr_writes)
           /\ pc[c] = "done" =>
                 (pc'[c] = "done" /\ ptr_writes' = ptr_writes
                    /\ ts_calls'[c] = ts_calls[c])]_vars

\* C14 witness: coordinator_train returned after all rounds, every
\* (round, stage) stored once.
C14_Witness ==
    /\ pc[Coordinator] = "done"
    /\ round_num[Coordinator] = max_rounds
    /\ max_rounds = MaxRounds
    /\ Len(ptr_writes) = MaxRounds * NumStages
    /\ Last(ptr_writes) = <<MaxRounds - 1, NumStages - 1>>

\* C15: the follower is never back at the head of its loop once the round
\* max_rounds - 1 was trained, or was observed after a finished round, and
\* after follower_train returned it polls, trains and sleeps no more.
StopsAtLastRound ==
    [][\A w \in Followers :
         /\ pc'[w] = "f_loop" =>
                /\ max_rounds - 1 \notin done_rounds'
                /\ done_rounds' # {} => round_num'[w] # max_rounds - 1
         /\ (pc[w] = "ret" /\ round_num[w] = max_rounds - 1) =>
                pc'[w] \in {"ret", "done"}
         /\ pc[w] = "done" =>
                /\ pc'[w] = "done"
                /\ UNCHANGED <<done_rounds, check_backoff>>
                /\ round_num'[w] = round_num[w]
                /\ stage'[w] = stage[w]
                /\ last_sleep'[w] = last_sleep[w]
                /\ ts_calls'[w] = ts_calls[w]
                /\ node_round_num'[w] = node_round_num[w]
                /\ node_stage_num'[w] = node_stage_num[w]]_vars

\* C15 (as stated; SpecTerm): the follower stops at the last round as
\* above, and follower_train always terminates by a return: after that
\* last round or on the expiry of the time budget.
C15_ReturnsAtLastRoundOrTimeout ==
    StopsAtLastRound /\ <>(\A w \in Followers : pc[w] = "done")

\* C15 (amended; SpecTerm): the follower stops at the last round as above,
\* and follower_train always terminates: by a return after that last round
\* or on the expiry of the time budget, or by an error that leaves
\* train_stages.
C15_ReturnsOrRaises ==
    StopsAtLastRound /\ <>(\A w \in Followers : pc[w] \in {"done", "error"})

\* C15 witness: the follower returned right after it trained the last
\* round, which it had joined at the observed stage 1.
C15_Witness ==
    /\ pc[Follower] = "done"
    /\ max_rounds - 1 \in done_rounds
    /\ round_num[Follower] = max_rounds - 1
    /\ stage[Follower] = 1
    /\ ts_calls[Follower][max_rounds - 1] = 1

\* C16 (as stated; SpecPublish): when train() has ended by an error, the
\* error is the one re-raised to the caller, the distributed process group
\* is destroyed and the node's stage cache is empty.
C16_ErrorExitReleasesAll ==
    \A w \in Workers :
        pc[w] = "error" =>
            /\ err[w] # "none"
            /\ ~pg_init[w]
            /\ stage_cache[w] = {}

\* C17 (as stated; SpecPublish): a compute_loss step whose step counter is
\* not a multiple of CADENCE_OF_UPDATE_STEPS stores no outputs and no
\* rewards and, on the coordinator, neither reads the rewards map nor
\* stores a leaderboard.
C17_PublishOnCadenceOnly ==
    [][\A w \in Workers :
         (/\ pc[w] = "training"
          /\ global_step'[w] = global_step[w] + 1
          /\ global_step[w] % CADENCE_OF_UPDATE_STEPS # 0) =>
            /\ outputs' = outputs
            /\ rewards' = rewards
            /\ curr_rewards' = curr_rewards
            /\ leaderboard' = leaderboard]_vars

\* C18 (SpecRetry): an error of the training step that is not transient is
\* not retried: the failing trainer.train() call is the last one of the
\* stage, no retry cleanup() and no sleep follow it, and the same error
\* leaves train_stage_and_save (to end train(), or to reach the follower's
\* catch-up handler).  A trainer.train() call that succeeds after
\* transient failures, within MAX_TRAIN_FAILS attempts, completes the
\* stage normally.
NonTransientErrors == {"DatasetGenerationError", "Exception"}
C18_NonTransientNotRetried ==
    [][\A w \in Workers :
         /\ pc'[w] = "training" =>
                (attempt'[w] = fails'[w] + 1 /\ attempt'[w] <= MAX_TRAIN_FAILS)
         /\ (pc[w] = "training" /\ pc'[w] = "error"
                /\ err'[w] # "UnboundLocalError") =>
                /\ err'[w] \in NonTransientErrors
                /\ attempt'[w] = attempt[w]
                /\ fails'[w] = fails[w]
                /\ cleanups'[w] = cleanups[w]
                /\ last_sleep'[w] = last_sleep[w]
         /\ (pc[w] = "training" /\ retrying'[w] /\ ~retrying[w]) =>
                /\ attempt'[w] = attempt[w]
                /\ fails'[w] = fails[w]
                /\ last_sleep'[w] = last_sleep[w]
         /\ (pc[w] = "training" /\ pc'[w] = "ts_loop"
                /\ retrying'[w] = retrying[w]) =>
                /\ stage_idx'[w] = stage_idx[w] + 1
                /\ err'[w] = "none"
                /\ cleanups'[w] = call_fails[w]]_vars

\* C18 witness: one worker's stage ended by a non-transient error on the
\* call that followed a transient failure, while the other worker's
\* train_stages returned after a stage that needed a retry.
C18_Witness ==
    \E w \in Workers, v \in Workers :
        /\ pc[w] = "error" /\ err[w] \in NonTransientErrors
        /\ fails[w] = 1 /\ attempt[w] = 2 /\ cleanups[w] = 1
        /\ pc[v] = "ret" /\ call_fails[v] >= 1

\* C19 (SpecRetry): with a push token configured, a failed push of the
\* final model does not fail train_stages: the call still runs cleanup()
\* (the stage cache is cleared) and returns normally, without the sleep
\* that follows a push that succeeded, and its caller goes on as after a
\* success: the coordinator advances its round, the follower adds the
\* round to done_rounds.
C19_PushFailureSwallowed ==
    [][\A w \in Workers :
         /\ (/\ pc[w] = "ts_loop"
             /\ stage_idx[w] >= NumStages
             /\ pc'[w] # "ts_loop"
             /\ push'[w] = "failed") =>
                /\ push_to_hub_token
                /\ pc'[w] = "ret"
                /\ err'[w] = "none"
                /\ cleanups'[w] = cleanups[w] + 1
                /\ stage_cache'[w] = {}
                /\ last_sleep'[w] = last_sleep[w]
         /\ (pc[w] = "ret" /\ push[w] = "failed" /\ pc'[w] # "ret") =>
                IF is_coordinator(w)
                THEN /\ round_num'[w] = round_num[w] + 1
                     /\ pc'[w] \in {"c_loop", "done"}
                ELSE /\ round_num[w] \in done_rounds'
                     /\ pc'[w] \in {"f_loop", "done"}]_vars

\* C19 witness: the push failed on both workers, the coordinator has
\* advanced to round 1 and the follower has recorded round 0 as done.
C19_Witness ==
    /\ push_to_hub_token
    /\ push = [w \in Workers |-> "failed"]
    /\ round_num[Coordinator] = 1
    /\ 0 \in done_rounds
    /\ \A w \in Workers : pc[w] = "done" /\ err[w] = "none"

\* C20 (as stated; SpecEventual): for every (round, stage) and every worker
\* that stored a reward for it, the leaderboard published for that
\* (round, stage) eventually holds the worker's latest stored reward,
\* rewards that a follower stores after the coordinator has finished the
\* stage included.
Shown(k, w) ==
    /\ k \in DOMAIN leaderboard
    /\ w \in DOMAIN rewards[k]
    /\ \E i \in 1..Len(leaderboard[k]) :
          leaderboard[k][i] = <<w, rewards[k][w]>>
C20_LeaderboardEventuallyLatest ==
    \A k \in RS, w \in Workers : (w \in DOMAIN rewards[k]) ~> Shown(k, w)

\* C20 (amended; SpecEventual): the leaderboard of a (round, stage) is
\* stored only by a compute_loss step of the coordinator while it trains
\* that (round, stage); right after each such step it holds exactly the
\* rewards stored for the (round, stage) so far, the coordinator's own
\* latest reward included.  It never changes afterwards, so rewards that a
\* follower stores once the coordinator has finished the stage are not
\* added.
LeaderboardAt(lb, k) == IF k \in DOMAIN lb THEN lb[k] ELSE <<>>
C20_LeaderboardWhileTraining ==
    [][\A k \in RS :
         LET c == Coordinator
             step == /\ pc[c] = "training"
                     /\ <<node_round_num[c], node_stage_num[c]>> = k
                     /\ global_step'[c] = global_step[c] + 1
         IN  /\ LeaderboardAt(leaderboard', k) # LeaderboardAt(leaderboard, k)
                    => step
             /\ step =>
                    /\ k \in DOMAIN leaderboard'
                    /\ PairsOf(leaderboard'[k], rewards'[k])
                    /\ OrderedDesc(leaderboard'[k])
                    /\ Shown(k, c)']_vars

\* C20 witness: the coordinator has finished; the leaderboard of (0, 0)
\* holds the rewards of both workers, and the follower stored its reward
\* of (0, 1) after the coordinator's last step of that stage, where the
\* leaderboard holds the coordinator's reward alone.
C20_Witness ==
    /\ pc[Coordinator] = "done"
    /\ Shown(<<0, 0>>, Coordinator) /\ Shown(<<0, 0>>, Follower)
    /\ Shown(<<0, 1>>, Coordinator)
    /\ Follower \in DOMAIN rewards[<<0, 1>>]
    /\ Len(leaderboard[<<0, 1>>]) = 1

====
